---- MODULE Spec2Model ----
(***************************************************************************)
(* Workflow orchestration of the FDA regulatory assistant: the supervisor  *)
(* decision procedure, the final-response compiler, the specialist nodes   *)
(* and the graph that wires them (src/graph/state.py, src/graph/agents.py, *)
(* src/graph/graph.py).                                                    *)
(*                                                                         *)
(* Text is a sequence of tokens.  A token is a string: a word, a piece of  *)
(* whitespace, the sources marker, or a literal fragment of one of the     *)
(* f-strings of the code.  An Optional value is None (<<>>) or Some(v)     *)
(* (<<v>>).                                                                *)
(***************************************************************************)
EXTENDS Integers, Sequences, FiniteSets, TLC

VARIABLES state, node, steps, status, oracle_calls, decision, reason_used,
          yielded, all_sources,
          chains, initialization_lock, pc, builds, returned,
          zip_content, files_data

\* the workflow engine (one request)
engineVars ==
    <<state, node, steps, status, oracle_calls, decision, reason_used,
      yielded, all_sources>>

\* the RAG chain manager and its callers
chainVars == <<chains, initialization_lock, pc, builds, returned>>

\* archive expansion
zipVars == <<zip_content, files_data>>

vars == <<engineVars, chainVars, zipVars>>

-----------------------------------------------------------------------------
(* Bounds of the model and constants of the program *)

MaxFiles == 1

MaxHandBuilt == 6

MaxCallers == 2

MaxMembers == 3

recursion_limit == 15

MaxAgentMessages == 6

-----------------------------------------------------------------------------
(* Optional values *)

None == <<>>

Some(v) == <<v>>

\* Python truthiness of an Optional[str]: None and "" are falsy
Truthy(opt) == opt # None /\ opt[1] # <<>>

-----------------------------------------------------------------------------
(* Text *)

SRC == "Sources referenced:"

WhiteSpace == {" ", "\n", "\n\n"}

HasMarker(t) == \E i \in 1..Len(t) : t[i] = SRC

\* str.split(marker)[0]
BeforeMarker(t) ==
    IF HasMarker(t)
    THEN SubSeq(t, 1, (CHOOSE i \in 1..Len(t) :
                          t[i] = SRC /\ \A j \in 1..(i - 1) : t[j] # SRC) - 1)
    ELSE t

\* str.strip()
Strip(t) ==
    LET solid == {i \in 1..Len(t) : t[i] \notin WhiteSpace}
    IN  IF solid = {} THEN <<>>
        ELSE SubSeq(t, CHOOSE i \in solid : \A j \in solid : i <= j,
                       CHOOSE i \in solid : \A j \in solid : j <= i)

Contains(t, sub) ==
    \E i \in 0..(Len(t) - Len(sub)) : SubSeq(t, i + 1, i + Len(sub)) = sub

-----------------------------------------------------------------------------
(* Identities *)

NoName == ""

SUPERVISOR == "supervisor"

FINISH == "FINISH"

Specialists ==
    {"document_processor", "cybersecurity_agent", "regulatory_agent",
     "auditor_agent", "report_generator"}

\* the required list without the document processor
required_agents_without_processor ==
    <<"cybersecurity_agent", "regulatory_agent", "auditor_agent",
      "report_generator">>

required_agents ==
    <<"document_processor", "cybersecurity_agent", "regulatory_agent",
      "auditor_agent", "report_generator">>

valid_options == {FINISH} \cup Specialists

Range(s) == {s[i] : i \in 1..Len(s)}

HumanMessage(content, name) == [name |-> name, content |-> content]

\* a filter that forgets that a human message has no name
IsAgentMessage_counts_human(m) == m.name # SUPERVISOR

\* hasattr(m, "name") and m.name and m.name != "supervisor"
IsAgentMessage(m) == m.name # NoName /\ m.name # SUPERVISOR

AgentMessages(messages) == SelectSeq(messages, IsAgentMessage)

-----------------------------------------------------------------------------
(* create_initial_state *)

create_initial_state(user_input, uploaded_files, workflow_type) ==
    [messages |-> <<HumanMessage(user_input, NoName)>>,
     team_members |->
        IF workflow_type = "gap_analysis"
        THEN <<"cybersecurity_agent", "regulatory_agent", "auditor_agent",
               "report_generator">>
        ELSE <<"cybersecurity_agent", "regulatory_agent">>,
     next |-> SUPERVISOR,
     workflow_type |-> workflow_type,
     uploaded_files |-> uploaded_files,
     processed_documents |-> 0,
     cybersecurity_analysis |-> None,
     regulatory_analysis |-> None,
     gap_analysis |-> None,
     document_metadata |-> None,
     final_response |-> None]

\* LangGraph's reducers: messages accumulate (operator.add), every other
\* key of a node's returned delta replaces the stored value
Merge(s, delta) ==
    [k \in DOMAIN s |->
        IF k \in DOMAIN delta
        THEN IF k = "messages" THEN s[k] \o delta[k] ELSE delta[k]
        ELSE s[k]]

-----------------------------------------------------------------------------
(* get_completed_agents_from_messages *)

RECURSIVE CompletedUpTo(_, _)
CompletedUpTo(messages, n) ==
    IF n = 0 THEN <<>>
    ELSE LET completed_agents == CompletedUpTo(messages, n - 1)
             agent_name == messages[n].name
         IN  IF /\ agent_name # NoName
                /\ agent_name \notin Range(completed_agents)
                /\ agent_name # SUPERVISOR
             THEN Append(completed_agents, agent_name)
             ELSE completed_agents

get_completed_agents_from_messages(messages) ==
    CompletedUpTo(messages, Len(messages))

-----------------------------------------------------------------------------
(* compile_final_response_from_messages *)

\* agent_name.replace('_', ' ')
NameSpaced(name) ==
    CASE name = "document_processor" -> "document processor"
      [] name = "cybersecurity_agent" -> "cybersecurity agent"
      [] name = "regulatory_agent" -> "regulatory agent"
      [] name = "auditor_agent" -> "auditor agent"
      [] name = "report_generator" -> "report generator"
      [] OTHER -> name

\* agent_name.replace("_", " ").title()
NameTitle(name) ==
    CASE name = "document_processor" -> "Document Processor"
      [] name = "cybersecurity_agent" -> "Cybersecurity Agent"
      [] name = "regulatory_agent" -> "Regulatory Agent"
      [] name = "auditor_agent" -> "Auditor Agent"
      [] name = "report_generator" -> "Report Generator"
      [] OTHER -> name

\* the message content with its sources section removed
CleanContent(content) ==
    IF HasMarker(content) THEN Strip(BeforeMarker(content)) ELSE content

AgentResponses(messages) ==
    LET am == AgentMessages(messages)
    IN  [i \in 1..Len(am) |->
            [agent |-> am[i].name, content |-> CleanContent(am[i].content)]]

GenericResponse(termination_reason) ==
    <<"Analysis completed (", termination_reason,
      "). Please let me know if you need any additional information or clarification.">>

QA_HEAD == "**FDA Auditor Assessment:** Based on my review and specialist analysis, here are the key findings:"

QA_CONTEXT == "**Regulatory Context:** The analysis above provides the technical details you requested from our"

QA_TAIL == "specialist. **Recommendations:** Do you need any additional clarifications?"

GAP_HEAD == "**FDA Auditor Assessment - Compliance Gap Analysis:**"

GAP_TAIL == "**Overall Assessment:** Do you need any additional clarifications?"

\* the question-answering answer built on the first agent response
QAResponse_first(agent_responses) ==
    LET latest == agent_responses[1]
    IN  <<QA_HEAD>> \o latest.content
            \o <<QA_CONTEXT, NameSpaced(latest.agent), QA_TAIL>>

QAResponse(agent_responses) ==
    LET latest == agent_responses[Len(agent_responses)]
    IN  <<QA_HEAD>> \o latest.content
            \o <<QA_CONTEXT, NameSpaced(latest.agent), QA_TAIL>>

RECURSIVE GapFindings(_, _)
GapFindings(agent_responses, n) ==
    IF n = 0 THEN <<>>
    ELSE GapFindings(agent_responses, n - 1)
            \o <<"**", NameTitle(agent_responses[n].agent), " Findings:**\n">>
            \o agent_responses[n].content \o <<"\n\n">>

GapResponse(agent_responses) ==
    <<GAP_HEAD>> \o GapFindings(agent_responses, Len(agent_responses))
        \o <<GAP_TAIL>>

\* the compiler without the generic text for a log without agent responses
compile_empty_when_none(messages, workflow_type, termination_reason) ==
    LET agent_responses == AgentResponses(messages)
    IN  IF agent_responses = <<>>
        THEN <<>>
        ELSE IF workflow_type = "question_answering"
             THEN QAResponse(agent_responses)
             ELSE GapResponse(agent_responses)

compile_final_response_from_messages(messages, workflow_type, termination_reason) ==
    LET agent_responses == AgentResponses(messages)
    IN  IF agent_responses = <<>>
        THEN GenericResponse(termination_reason)
        ELSE IF workflow_type = "question_answering"
             THEN QAResponse(agent_responses)
             ELSE GapResponse(agent_responses)

-----------------------------------------------------------------------------
(* supervisor_node *)

\* What chain.invoke(state) gave: it raised, or it returned a parsed dict
OracleTexts == {<<>>, <<" ">>, <<"o">>}

OracleDict(next, final_response) ==
    [kind |-> "dict", next |-> next, final_response |-> final_response]

OracleRaises == [kind |-> "raise", next |-> NoName, final_response |-> <<>>]

OracleOutcomes ==
    {OracleRaises, OracleDict("unknown_agent", <<>>)}
    \cup {OracleDict(FINISH, t) : t \in OracleTexts}
    \cup {OracleDict(a, t) : a \in Specialists, t \in {<<>>, <<"o">>}}

NotConsulted == [kind |-> "not_consulted", next |-> NoName, final_response |-> <<>>]

agent_message_count(messages) == Len(AgentMessages(messages))

\* the cap compared with > where the code has >=
termination_reason_cap_exclusive(s) ==
    LET completed_agents == get_completed_agents_from_messages(s.messages)
    IN  IF agent_message_count(s.messages) > MaxAgentMessages
        THEN "Maximum agent interactions reached"
        ELSE IF Truthy(s.final_response)
        THEN "Final response already provided"
        ELSE IF s.workflow_type = "question_answering" /\ Len(completed_agents) >= 1
        THEN "Question answering workflow complete"
        ELSE IF /\ s.workflow_type = "gap_analysis"
                /\ \A i \in 1..Len(required_agents) :
                        required_agents[i] \in Range(completed_agents)
        THEN "Gap analysis workflow complete"
        ELSE ""

\* the conditions without the question-answering completion rule
termination_reason_no_qa_rule(s) ==
    LET completed_agents == get_completed_agents_from_messages(s.messages)
    IN  IF agent_message_count(s.messages) >= MaxAgentMessages
        THEN "Maximum agent interactions reached"
        ELSE IF Truthy(s.final_response)
        THEN "Final response already provided"
        ELSE IF /\ s.workflow_type = "gap_analysis"
                /\ \A i \in 1..Len(required_agents) :
                        required_agents[i] \in Range(completed_agents)
        THEN "Gap analysis workflow complete"
        ELSE ""

\* the conditions with the final_response test ahead of the message cap
termination_reason_response_first(s) ==
    LET completed_agents == get_completed_agents_from_messages(s.messages)
    IN  IF Truthy(s.final_response)
        THEN "Final response already provided"
        ELSE IF agent_message_count(s.messages) >= MaxAgentMessages
        THEN "Maximum agent interactions reached"
        ELSE IF s.workflow_type = "question_answering" /\ Len(completed_agents) >= 1
        THEN "Question answering workflow complete"
        ELSE IF /\ s.workflow_type = "gap_analysis"
                /\ \A i \in 1..Len(required_agents) :
                        required_agents[i] \in Range(completed_agents)
        THEN "Gap analysis workflow complete"
        ELSE ""

\* the termination conditions checked before the LLM is called;
\* "" when none applies (should_terminate = False)
termination_reason(s) ==
    LET completed_agents == get_completed_agents_from_messages(s.messages)
    IN  IF agent_message_count(s.messages) >= MaxAgentMessages
        THEN "Maximum agent interactions reached"
        ELSE IF Truthy(s.final_response)
        THEN "Final response already provided"
        ELSE IF s.workflow_type = "question_answering" /\ Len(completed_agents) >= 1
        THEN "Question answering workflow complete"
        ELSE IF /\ s.workflow_type = "gap_analysis"
                /\ \A i \in 1..Len(required_agents) :
                        required_agents[i] \in Range(completed_agents)
        THEN "Gap analysis workflow complete"
        ELSE ""

should_terminate(s) == termination_reason(s) # ""

Finish(s, reason) ==
    [next |-> FINISH,
     final_response |->
        Some(compile_final_response_from_messages(s.messages, s.workflow_type, reason))]

\* a response schema without the validator on next
ValidationError_never(o) == FALSE

\* SupervisorResponse(**parsed_dict) raises unless next is a valid option
ValidationError(o) == o.next \notin valid_options

\* the routing decision without the check against completed agents
llm_routing_no_duplicate_check(s, o) ==
    IF o.kind = "raise" \/ ValidationError(o)
    THEN Finish(s, "Error in supervisor routing")
    ELSE IF o.next = FINISH /\ Strip(o.final_response) = <<>>
    THEN Finish(s, "LLM requested finish without response")
    ELSE [next |-> o.next, final_response |-> Some(o.final_response)]

\* the routing decision that finishes with the LLM's own text when the LLM
\* names a completed agent
llm_routing_duplicate_keeps_text(s, o) ==
    LET completed_agents == get_completed_agents_from_messages(s.messages)
    IN  IF o.kind = "raise" \/ ValidationError(o)
        THEN Finish(s, "Error in supervisor routing")
        ELSE IF o.next # FINISH /\ o.next \in Range(completed_agents)
        THEN [next |-> FINISH, final_response |-> Some(o.final_response)]
        ELSE IF o.next = FINISH /\ Strip(o.final_response) = <<>>
        THEN Finish(s, "LLM requested finish without response")
        ELSE [next |-> o.next, final_response |-> Some(o.final_response)]

\* the routing decision that tests the LLM's text for "" without strip()
llm_routing_blank_not_stripped(s, o) ==
    LET completed_agents == get_completed_agents_from_messages(s.messages)
    IN  IF o.kind = "raise" \/ ValidationError(o)
        THEN Finish(s, "Error in supervisor routing")
        ELSE IF o.next # FINISH /\ o.next \in Range(completed_agents)
        THEN Finish(s, "Attempted duplicate routing prevented")
        ELSE IF o.next = FINISH /\ o.final_response = <<>>
        THEN Finish(s, "LLM requested finish without response")
        ELSE [next |-> o.next, final_response |-> Some(o.final_response)]

\* the routing decision once the LLM has been called with outcome o; the
\* first branch is the except clause (its inner fallback text needs the
\* compiler itself to raise, which it does not on messages with text content)
llm_routing(s, o) ==
    LET completed_agents == get_completed_agents_from_messages(s.messages)
    IN  IF o.kind = "raise" \/ ValidationError(o)
        THEN Finish(s, "Error in supervisor routing")
        ELSE IF o.next # FINISH /\ o.next \in Range(completed_agents)
        THEN Finish(s, "Attempted duplicate routing prevented")
        ELSE IF o.next = FINISH /\ Strip(o.final_response) = <<>>
        THEN Finish(s, "LLM requested finish without response")
        ELSE [next |-> o.next, final_response |-> Some(o.final_response)]

supervisor_node(s, o) ==
    IF should_terminate(s)
    THEN Finish(s, termination_reason(s))
    ELSE llm_routing(s, o)

-----------------------------------------------------------------------------
(* agent_node: the cybersecurity and regulatory specialists *)

Source(document, page) == [document |-> document, page |-> page]

\* a tool output of an intermediate step: a dict, a string holding a JSON
\* dict, or another string; sources is what its "sources" key holds
ToolOutput(kind, sources) == [kind |-> kind, sources |-> sources]

\* what agent.invoke(state) gave: {"output": ..., "intermediate_steps": ...}
AgentResult(output, intermediate_steps) ==
    [output |-> output, intermediate_steps |-> intermediate_steps]

AgentResults ==
    {AgentResult(<<"w">>, <<>>),
     AgentResult(<<"w">>, <<ToolOutput("dict", <<>>)>>),
     AgentResult(<<"w">>,
                 <<ToolOutput("dict", <<Source("docA", "2"), Source("docB", "2"),
                                        Source("docA", "3"), Source("docA", "2")>>)>>)}

RECURSIVE SourceLines(_, _)
SourceLines(sources, n) ==
    IF n = 0 THEN <<>>
    ELSE SourceLines(sources, n - 1)
            \o <<ToString(n), ". ", sources[n].document, " - Page ",
                 sources[n].page, "\n">>

RECURSIVE SourcesInfo(_, _)
SourcesInfo(intermediate_steps, n) ==
    IF n = 0 THEN <<>>
    ELSE LET tool_output == intermediate_steps[n]
         IN  SourcesInfo(intermediate_steps, n - 1)
                \o (IF /\ tool_output.kind \in {"dict", "json_str"}
                       /\ tool_output.sources # <<>>
                    THEN <<"\n\n", SRC, "\n">>
                            \o SourceLines(tool_output.sources, Len(tool_output.sources))
                    ELSE <<>>)

\* every dict tool output stored in the cybersecurity slot
AnalysisSlot_always_cyber(name) == "cybersecurity_analysis"

\* the analysis slot agent_node stores a dict tool output in
AnalysisSlot(name) ==
    IF name = "cybersecurity_agent" THEN "cybersecurity_analysis"
    ELSE "regulatory_analysis"

DictOutputs(intermediate_steps) ==
    SelectSeq(intermediate_steps, LAMBDA t : t.kind = "dict")

\* the node with the sources header added whether or not a tool output
\* carried sources
agent_node_always_trailer(s, name, result) ==
    LET sources_info ==
            SourcesInfo(result.intermediate_steps, Len(result.intermediate_steps))
        full_content ==
            result.output
                \o (IF sources_info = <<>> THEN <<"\n\n", SRC, "\n">> ELSE sources_info)
        dicts == DictOutputs(result.intermediate_steps)
        messages == <<HumanMessage(full_content, name)>>
    IN  IF s.workflow_type = "gap_analysis" /\ dicts # <<>>
        THEN (AnalysisSlot(name) :> Some(dicts[Len(dicts)]))
                @@ [messages |-> messages]
        ELSE [messages |-> messages]

agent_node(s, name, result) ==
    LET full_content ==
            result.output
                \o SourcesInfo(result.intermediate_steps, Len(result.intermediate_steps))
        dicts == DictOutputs(result.intermediate_steps)
        messages == <<HumanMessage(full_content, name)>>
    IN  IF s.workflow_type = "gap_analysis" /\ dicts # <<>>
        THEN (AnalysisSlot(name) :> Some(dicts[Len(dicts)]))
                @@ [messages |-> messages]
        ELSE [messages |-> messages]

-----------------------------------------------------------------------------
(* document_processor_node *)

FileTypes == {"text", "error"}

File(type) == [name |-> "file", type |-> type]

RECURSIVE FileLines(_, _)
FileLines(files, n) ==
    IF n = 0 THEN <<>>
    ELSE FileLines(files, n - 1)
            \o (IF files[n].type # "error"
                THEN <<"- ", files[n].name, " (", files[n].type, ")\n">>
                ELSE <<>>)

\* chunked is the number of chunks chunk_document.invoke returned
document_processor_node(s, name, chunked) ==
    LET uploaded_files == s.uploaded_files
        processed_docs == SelectSeq(uploaded_files, LAMBDA f : f.type # "error")
    IN  IF uploaded_files = <<>>
        THEN [messages |-> <<HumanMessage(<<"No uploaded files found in the state.">>, name)>>]
        ELSE IF processed_docs = <<>>
        THEN [messages |-> <<HumanMessage(<<"No valid documents found to process.">>, name)>>]
        ELSE [messages |->
                <<HumanMessage(
                    <<"Document processing complete! Processed ",
                      ToString(Len(uploaded_files)), " uploaded files. Created ",
                      ToString(chunked), " document chunks. Files processed:\n">>
                    \o FileLines(uploaded_files, Len(uploaded_files))
                    \o <<"\nDocuments are ready for cybersecurity and regulatory analysis.">>,
                    name)>>,
              processed_documents |-> chunked,
              document_metadata |->
                Some([total_documents |-> Len(uploaded_files),
                      document_names |->
                        [i \in 1..Len(processed_docs) |-> processed_docs[i].name],
                      total_chunks |-> chunked])]

-----------------------------------------------------------------------------
(* auditor_agent_node and report_generator_node *)

\* tool_ok: perform_gap_analysis.invoke returned (it raised otherwise)
auditor_agent_node(s, tool_ok) ==
    IF tool_ok
    THEN [messages |->
            <<HumanMessage(<<"**AUDITOR ASSESSMENT**", " ", "Compliance Analysis Complete">>,
                           "auditor_agent")>>,
          gap_analysis |-> Some("gap_analysis_result")]
    ELSE [messages |->
            <<HumanMessage(<<"Error performing gap analysis:", " ", "e">>,
                           "auditor_agent")>>]

\* the report generator returning its report as final_response as well
report_generator_node_sets_final(s, tool_ok) ==
    LET content ==
            IF tool_ok
            THEN <<"**COMPLIANCE GAP ANALYSIS REPORT**", "\n\n", "summary", "\n\n",
                   "---", "\n\n", "report", "\n">>
            ELSE <<"Error generating report:", " ", "e">>
    IN  [messages |-> <<HumanMessage(content, "report_generator")>>,
         final_response |-> Some(content)]

\* tool_ok: generate_gap_analysis_report.invoke returned (it raised otherwise)
report_generator_node(s, tool_ok) ==
    [messages |->
        <<HumanMessage(
            IF tool_ok
            THEN <<"**COMPLIANCE GAP ANALYSIS REPORT**", "\n\n", "summary", "\n\n",
                   "---", "\n\n", "report", "\n">>
            ELSE <<"Error generating report:", " ", "e">>,
            "report_generator")>>]

-----------------------------------------------------------------------------
(* The compiled graph: supervisor is the entry point, its conditional edge  *)
(* follows state["next"] (FINISH leads to END), every specialist has one    *)
(* edge back to supervisor.  One node runs per step; a step that would      *)
(* exceed recursion_limit raises GraphRecursionError instead.  decision,   *)
(* oracle_calls and reason_used record the supervisor's last invocation:   *)
(* what the LLM chain gave, how often it was invoked, and the value of its *)
(* local termination_reason ("" when no termination condition held).       *)

END == "__end__"

UserInputs == {<<"q">>}

RECURSIVE SeqsUpTo(_, _)
SeqsUpTo(S, n) ==
    IF n = 0 THEN {<<>>}
    ELSE LET shorter == SeqsUpTo(S, n - 1)
         IN  shorter \cup {Append(q, x) : q \in shorter, x \in S}

Uploads == SeqsUpTo({File(t) : t \in FileTypes}, MaxFiles)

\* run_async: files uploaded means gap analysis
WorkflowTypeFor(uploaded_files) ==
    IF uploaded_files # <<>> THEN "gap_analysis" ELSE "question_answering"

\* one yielded string of the output stream: what it is and its text
Unit(unit, text) == [unit |-> unit, text |-> text]

\* the pieces of the text, one yield each; nothing for an empty text
stream_text_word_by_word(text, unit) ==
    [i \in 1..Len(text) |-> Unit(unit, text[i])]

\* \d+
IsNumber(t) == t \in {ToString(i) : i \in 0..99}

\* the matches of r"\d+\.\s+(.+?)\s+-\s+Page\s+(\d+)" that end within the
\* first n tokens' neighbourhood, in the order of the text
RECURSIVE SourceMatches(_, _)
SourceMatches(message_content, n) ==
    IF n = 0 THEN <<>>
    ELSE SourceMatches(message_content, n - 1)
            \o (IF /\ message_content[n] = " - Page "
                   /\ n >= 4
                   /\ n + 1 <= Len(message_content)
                   /\ IsNumber(message_content[n - 3])
                   /\ message_content[n - 2] = ". "
                   /\ IsNumber(message_content[n + 1])
                THEN <<Source(message_content[n - 1], message_content[n + 1])>>
                ELSE <<>>)

extract_sources_from_message(message_content) ==
    SourceMatches(message_content, Len(message_content))

\* a deduplication key made of the document alone
source_key_document_only(source) == <<source.document>>

\* f"{source['document']}_page_{source['page']}"
source_key(source) == <<source.document, "_page_", source.page>>

RECURSIVE UniqueSources(_, _)
UniqueSources(sources, n) ==
    IF n = 0 THEN <<>>
    ELSE LET unique_sources == UniqueSources(sources, n - 1)
             seen == {source_key(unique_sources[i]) : i \in 1..Len(unique_sources)}
         IN  IF source_key(sources[n]) \notin seen
             THEN Append(unique_sources, sources[n])
             ELSE unique_sources

RECURSIVE CitationLines(_, _)
CitationLines(unique_sources, n) ==
    IF n = 0 THEN <<>>
    ELSE CitationLines(unique_sources, n - 1)
            \o stream_text_word_by_word(
                    <<ToString(n), ". **", unique_sources[n].document,
                      "** - Page ", unique_sources[n].page, "\n">>, "citation")

\* what run_async yields for the messages of a specialist's chunk
RECURSIVE StatusLines(_, _)
StatusLines(messages, n) ==
    IF n = 0 THEN <<>>
    ELSE StatusLines(messages, n - 1)
            \o (IF messages[n].content # <<>>
                THEN <<Unit("status", messages[n].name)>>
                ELSE <<>>)

RECURSIVE MessageSources(_, _)
MessageSources(messages, n) ==
    IF n = 0 THEN <<>>
    ELSE MessageSources(messages, n - 1)
            \o (IF messages[n].content # <<>>
                THEN extract_sources_from_message(messages[n].content)
                ELSE <<>>)

\* what run_async yields for the supervisor's chunk
RoutingLines(node_output, sources) ==
    IF node_output.next # FINISH
    THEN <<Unit("routing", node_output.next)>>
    ELSE (IF Truthy(node_output.final_response)
          THEN <<Unit("answer_header", "FDA Auditor Assessment:")>>
                  \o stream_text_word_by_word(node_output.final_response[1], "answer")
                  \o <<Unit("answer_end", "\n\n")>>
          ELSE <<>>)
         \o (IF sources # <<>>
             THEN LET unique_sources == UniqueSources(sources, Len(sources))
                  IN  <<Unit("sources_header", "Sources:")>>
                          \o CitationLines(unique_sources, Len(unique_sources))
             ELSE <<>>)
         \o <<Unit("complete", "Analysis complete.")>>

\* the body of run_async's loop for one chunk {node_name: node_output}:
\* the strings it yields and all_sources afterwards
run_async_chunk(node_output, sources) ==
    IF "messages" \in DOMAIN node_output
    THEN [output |-> StatusLines(node_output.messages, Len(node_output.messages)),
          all_sources |->
            sources \o MessageSources(node_output.messages, Len(node_output.messages))]
    ELSE IF "next" \in DOMAIN node_output
    THEN [output |-> RoutingLines(node_output, sources), all_sources |-> sources]
    ELSE [output |-> <<>>, all_sources |-> sources]

\* an except clause that yields nothing
run_async_except_silent(e) == <<>>

\* run_async's except clause: what it yields for the exception e
run_async_except(e) ==
    IF e = "GraphRecursionError"
    THEN <<Unit("limit", "Workflow exceeded recursion limit."),
           Unit("limit", "If this persists, the supervisor agent may need additional tuning.")>>
    ELSE <<Unit("error", "Error in workflow execution:")>>

\* the chain manager and the archive expansion take no part in a request
OthersIdle ==
    /\ chains = [cybersecurity |-> None, regulatory |-> None]
    /\ initialization_lock = <<>>
    /\ pc = <<>>
    /\ builds = [cybersecurity |-> 0, regulatory |-> 0]
    /\ returned = <<>>
    /\ zip_content = <<>>
    /\ files_data = <<>>

Init ==
    /\ \E user_input \in UserInputs, uploaded_files \in Uploads :
          state = create_initial_state(user_input, uploaded_files,
                                       WorkflowTypeFor(uploaded_files))
    /\ node = SUPERVISOR
    /\ steps = 0
    /\ status = "running"
    /\ oracle_calls = 0
    /\ decision = NotConsulted
    /\ reason_used = ""
    /\ yielded = <<>>
    /\ all_sources = <<>>
    /\ OthersIdle

GraphRecursionError ==
    /\ status' = "recursion_error"
    /\ yielded' = yielded \o run_async_except("GraphRecursionError")
    /\ UNCHANGED <<state, node, steps, oracle_calls, decision, reason_used, all_sources>>

\* a node raised: the exception leaves the graph run
NodeRaises ==
    /\ status' = "error"
    /\ yielded' = yielded \o run_async_except("Exception")
    /\ UNCHANGED <<state, node, steps, oracle_calls, decision, reason_used, all_sources>>

\* a graph whose document_processor has its edge to cybersecurity_agent
NodeReturns_chains(delta) ==
    /\ state' = Merge(state, delta)
    /\ node' = IF node = "document_processor" THEN "cybersecurity_agent" ELSE SUPERVISOR
    /\ steps' = steps + 1
    /\ yielded' = yielded \o run_async_chunk(delta, all_sources).output
    /\ all_sources' = run_async_chunk(delta, all_sources).all_sources
    /\ UNCHANGED <<status, oracle_calls, decision, reason_used>>

\* a specialist returned its state updates; its edge leads to supervisor
NodeReturns(delta) ==
    /\ state' = Merge(state, delta)
    /\ node' = SUPERVISOR
    /\ steps' = steps + 1
    /\ yielded' = yielded \o run_async_chunk(delta, all_sources).output
    /\ all_sources' = run_async_chunk(delta, all_sources).all_sources
    /\ UNCHANGED <<status, oracle_calls, decision, reason_used>>

\* a graph whose conditional edge maps FINISH back to supervisor
SupervisorReturns_finish_loops(delta, o) ==
    /\ state' = Merge(state, delta)
    /\ node' = IF delta.next = FINISH THEN SUPERVISOR ELSE delta.next
    /\ status' = "running"
    /\ steps' = steps + 1
    /\ oracle_calls' = IF o = NotConsulted THEN oracle_calls ELSE oracle_calls + 1
    /\ decision' = o
    /\ reason_used' = termination_reason(state)
    /\ yielded' = yielded \o run_async_chunk(delta, all_sources).output
    /\ all_sources' = run_async_chunk(delta, all_sources).all_sources

\* the supervisor returned its decision; the conditional edge follows it
SupervisorReturns(delta, o) ==
    /\ state' = Merge(state, delta)
    /\ node' = IF delta.next = FINISH THEN END ELSE delta.next
    /\ status' = IF delta.next = FINISH THEN "finished" ELSE "running"
    /\ steps' = steps + 1
    /\ oracle_calls' = IF o = NotConsulted THEN oracle_calls ELSE oracle_calls + 1
    /\ decision' = o
    /\ reason_used' = termination_reason(state)
    /\ yielded' = yielded \o run_async_chunk(delta, all_sources).output
    /\ all_sources' = run_async_chunk(delta, all_sources).all_sources

Supervisor ==
    /\ status = "running"
    /\ node = SUPERVISOR
    /\ UNCHANGED <<chainVars, zipVars>>
    /\ IF steps >= recursion_limit
       THEN GraphRecursionError
       ELSE IF should_terminate(state)
            THEN SupervisorReturns(supervisor_node(state, NotConsulted), NotConsulted)
            ELSE \E o \in OracleOutcomes :
                    SupervisorReturns(supervisor_node(state, o), o)

DocumentProcessor ==
    /\ status = "running"
    /\ node = "document_processor"
    /\ UNCHANGED <<chainVars, zipVars>>
    /\ IF steps >= recursion_limit
       THEN GraphRecursionError
       ELSE LET valid == SelectSeq(state.uploaded_files, LAMBDA f : f.type # "error")
            IN  \/ NodeReturns(document_processor_node(state, "document_processor",
                                                       Len(valid)))
                \/ valid # <<>> /\ NodeRaises

CybersecurityAgent ==
    /\ status = "running"
    /\ node = "cybersecurity_agent"
    /\ UNCHANGED <<chainVars, zipVars>>
    /\ IF steps >= recursion_limit
       THEN GraphRecursionError
       ELSE \/ \E result \in AgentResults :
                 NodeReturns(agent_node(state, "cybersecurity_agent", result))
            \/ NodeRaises

RegulatoryAgent ==
    /\ status = "running"
    /\ node = "regulatory_agent"
    /\ UNCHANGED <<chainVars, zipVars>>
    /\ IF steps >= recursion_limit
       THEN GraphRecursionError
       ELSE \/ \E result \in AgentResults :
                 NodeReturns(agent_node(state, "regulatory_agent", result))
            \/ NodeRaises

AuditorAgent ==
    /\ status = "running"
    /\ node = "auditor_agent"
    /\ UNCHANGED <<chainVars, zipVars>>
    /\ IF steps >= recursion_limit
       THEN GraphRecursionError
       ELSE \E tool_ok \in BOOLEAN : NodeReturns(auditor_agent_node(state, tool_ok))

ReportGenerator ==
    /\ status = "running"
    /\ node = "report_generator"
    /\ UNCHANGED <<chainVars, zipVars>>
    /\ IF steps >= recursion_limit
       THEN GraphRecursionError
       ELSE \E tool_ok \in BOOLEAN : NodeReturns(report_generator_node(state, tool_ok))

Next ==
    \/ Supervisor
    \/ DocumentProcessor
    \/ CybersecurityAgent
    \/ RegulatoryAgent
    \/ AuditorAgent
    \/ ReportGenerator

Spec == Init /\ [][Next]_vars

TypeOK ==
    /\ node \in Specialists \cup {SUPERVISOR, END}
    /\ status \in {"running", "finished", "error", "recursion_error"}
    /\ steps \in 0..recursion_limit
    /\ oracle_calls \in 0..recursion_limit
    /\ state.next \in Specialists \cup {SUPERVISOR, FINISH}

-----------------------------------------------------------------------------
(* supervisor_node applied to a state built by hand: the seed message      *)
(* followed by up to MaxHandBuilt further messages, any number of them by  *)
(* each author, laid out author by author; final_response unset, empty or  *)
(* already set.                                                            *)

HandBuiltAuthors ==
    <<"document_processor", "cybersecurity_agent", "regulatory_agent",
      "auditor_agent", "report_generator", SUPERVISOR, NoName>>

HandBuiltMessage(name) ==
    HumanMessage(IF name = NoName THEN <<"q">>
                 ELSE IF name = SUPERVISOR THEN <<"s">> ELSE <<"w", name>>, name)

Repeat(m, c) == [i \in 1..c |-> m]

\* the logs whose authors are HandBuiltAuthors[k], HandBuiltAuthors[k+1], ...
\* in that order, n messages at most
RECURSIVE HandBuiltLogs(_, _)
HandBuiltLogs(k, n) ==
    IF k > Len(HandBuiltAuthors) THEN {<<>>}
    ELSE UNION {{Repeat(HandBuiltMessage(HandBuiltAuthors[k]), c) \o rest :
                    rest \in HandBuiltLogs(k + 1, n - c)} : c \in 0..n}

HandBuiltResponses == {None, Some(<<>>), Some(<<"o">>)}

InitHandBuilt ==
    /\ \E uploaded_files \in {<<>>, <<File("text")>>},
          log \in HandBuiltLogs(1, MaxHandBuilt),
          response \in HandBuiltResponses :
          state = [create_initial_state(<<"q">>, uploaded_files,
                                        WorkflowTypeFor(uploaded_files))
                     EXCEPT !.messages = @ \o log, !.final_response = response]
    /\ node = SUPERVISOR
    /\ steps = 0
    /\ status = "running"
    /\ oracle_calls = 0
    /\ decision = NotConsulted
    /\ reason_used = ""
    /\ yielded = <<>>
    /\ all_sources = <<>>
    /\ OthersIdle

NextSupervisor == Supervisor

SpecSupervisor == InitHandBuilt /\ [][NextSupervisor]_vars

-----------------------------------------------------------------------------
(* RAGChainManager: callers of get_cybersecurity_chain, get_regulatory_chain *)
(* and prewarm_chains (which gathers the two getters) run as coroutines of  *)
(* one manager.  A task is a pair <<caller, domain>>; pc holds the place of *)
(* each task in its getter, builds counts the builds per domain, returned   *)
(* holds what each getter returned.                                         *)

Domains == {"cybersecurity", "regulatory"}

CallerKinds == {"get_cybersecurity_chain", "get_regulatory_chain", "prewarm_chains"}

\* the getters a caller runs
DomainsOf(kind) ==
    IF kind = "prewarm_chains" THEN Domains
    ELSE IF kind = "get_cybersecurity_chain" THEN {"cybersecurity"}
    ELSE {"regulatory"}

Tasks(callers) ==
    UNION {{<<c, d>> : d \in DomainsOf(callers[c])} : c \in 1..Len(callers)}

\* the object fda_cybersecurity_rag(docs) / fda_regulatory_rag(docs) returns
Chain(domain, build) == [domain |-> domain, build |-> build]

\* the values of the engine's variables while no request runs
EngineIdle ==
    /\ state = create_initial_state(<<"q">>, <<>>, "question_answering")
    /\ node = SUPERVISOR
    /\ steps = 0
    /\ status = "running"
    /\ oracle_calls = 0
    /\ decision = NotConsulted
    /\ reason_used = ""
    /\ yielded = <<>>
    /\ all_sources = <<>>

InitChains ==
    /\ \E callers \in SeqsUpTo(CallerKinds, MaxCallers) :
          /\ pc = [t \in Tasks(callers) |-> "check"]
          /\ returned = [t \in Tasks(callers) |-> None]
    /\ chains = [d \in Domains |-> None]
    /\ initialization_lock = <<>>
    /\ builds = [d \in Domains |-> 0]
    /\ zip_content = <<>>
    /\ files_data = <<>>
    /\ EngineIdle

\* a getter without its second test
double_check_skipped(chain) == TRUE

\* the test repeated under the lock
double_check(chain) == chain = None

\* if self._cybersecurity_chain is None:
CheckChain ==
    \E t \in DOMAIN pc :
        /\ pc[t] = "check"
        /\ pc' = [pc EXCEPT ![t] = IF chains[t[2]] = None THEN "acquire" ELSE "return"]
        /\ UNCHANGED <<chains, initialization_lock, builds, returned>>
        /\ UNCHANGED <<engineVars, zipVars>>

\* async with self._initialization_lock: entered once the lock is free
AcquireLock ==
    \E t \in DOMAIN pc :
        /\ pc[t] = "acquire"
        /\ initialization_lock = <<>>
        /\ initialization_lock' = t
        /\ pc' = [pc EXCEPT ![t] = "double_check"]
        /\ UNCHANGED <<chains, builds, returned>>
        /\ UNCHANGED <<engineVars, zipVars>>

DoubleCheck ==
    \E t \in DOMAIN pc :
        /\ pc[t] = "double_check"
        /\ pc' = [pc EXCEPT ![t] = IF double_check(chains[t[2]]) THEN "build"
                                   ELSE "release"]
        /\ UNCHANGED <<chains, initialization_lock, builds, returned>>
        /\ UNCHANGED <<engineVars, zipVars>>

\* the documents are loaded and the chain is built and stored
BuildChain ==
    \E t \in DOMAIN pc :
        /\ pc[t] = "build"
        /\ builds' = [builds EXCEPT ![t[2]] = @ + 1]
        /\ chains' = [chains EXCEPT ![t[2]] = Some(Chain(t[2], builds[t[2]] + 1))]
        /\ pc' = [pc EXCEPT ![t] = "release"]
        /\ UNCHANGED <<initialization_lock, returned>>
        /\ UNCHANGED <<engineVars, zipVars>>

\* the end of the async with block
ReleaseLock ==
    \E t \in DOMAIN pc :
        /\ pc[t] = "release"
        /\ initialization_lock' = <<>>
        /\ pc' = [pc EXCEPT ![t] = "return"]
        /\ UNCHANGED <<chains, builds, returned>>
        /\ UNCHANGED <<engineVars, zipVars>>

\* return self._cybersecurity_chain
ReturnChain ==
    \E t \in DOMAIN pc :
        /\ pc[t] = "return"
        /\ returned' = [returned EXCEPT ![t] = chains[t[2]]]
        /\ pc' = [pc EXCEPT ![t] = "done"]
        /\ UNCHANGED <<chains, initialization_lock, builds>>
        /\ UNCHANGED <<engineVars, zipVars>>

NextChains ==
    \/ CheckChain
    \/ AcquireLock
    \/ DoubleCheck
    \/ BuildChain
    \/ ReleaseLock
    \/ ReturnChain

SpecChains == InitChains /\ [][NextChains]_vars

-----------------------------------------------------------------------------
(* process_zip_file: zip_content is the uploaded archive, files_data what   *)
(* the function returned (None before it has run).                          *)

\* a member of the archive: whether it is a directory, whether
\* zip_file.read gives its bytes, whether the document parser gets its text
ZipMember(filename, is_dir, read_ok, parse_ok) ==
    [filename |-> filename, is_dir |-> is_dir, read_ok |-> read_ok,
     parse_ok |-> parse_ok]

ZipMembers ==
    {ZipMember("docs/", TRUE, TRUE, TRUE),
     ZipMember("a.TXT", FALSE, TRUE, TRUE),
     ZipMember("b.pdf", FALSE, FALSE, TRUE),
     ZipMember("c.pdf", FALSE, TRUE, FALSE)}

\* too_small: fewer than 4 bytes; not_pk: other magic bytes; bad_zip:
\* zipfile.ZipFile raises BadZipFile; valid: the archive opens
ArchiveKinds == {"too_small", "not_pk", "bad_zip", "valid"}

Archive(kind, members) == [kind |-> kind, members |-> members]

Archives ==
    {Archive(k, <<>>) : k \in ArchiveKinds \ {"valid"}}
        \cup {Archive("valid", m) : m \in SeqsUpTo(ZipMembers, MaxMembers)}

\* os.path.splitext(filename)[1].lower()
FileExtension(filename) ==
    CASE filename = "a.TXT" -> ".txt"
      [] filename = "b.pdf" -> ".pdf"
      [] filename = "c.pdf" -> ".pdf"
      [] OTHER -> ""

\* the parser's text, or its error text when it could not parse: it
\* returns a string either way
extract_text_from_file(member) ==
    IF member.parse_ok
    THEN <<"text of ", member.filename>>
    ELSE <<"[Error extracting content from ", member.filename, "]">>

FileEntry(name, content, type, size) ==
    [name |-> name, content |-> content, type |-> type, size |-> size]

\* the loop over zip_file.filelist
RECURSIVE MemberEntries(_, _)
MemberEntries(filelist, n) ==
    IF n = 0 THEN <<>>
    ELSE LET file_info == filelist[n]
         IN  MemberEntries(filelist, n - 1)
                \o (IF file_info.is_dir THEN <<>>
                    ELSE IF file_info.read_ok
                    THEN <<FileEntry(file_info.filename,
                                     extract_text_from_file(file_info),
                                     FileExtension(file_info.filename), 1)>>
                    ELSE <<FileEntry(file_info.filename,
                                     <<"[Error processing file: ", "e", "]">>,
                                     "error", 0)>>)

process_zip_file(archive) ==
    IF archive.kind \in {"too_small", "not_pk"}
    THEN <<FileEntry("zip_error.txt", <<"Error processing ZIP file: ", "e">>, "error", 0)>>
    ELSE IF archive.kind = "bad_zip"
    THEN <<FileEntry("zip_format_error.txt", <<"Invalid ZIP file format: ", "e">>,
                     "error", 0)>>
    ELSE MemberEntries(archive.members, Len(archive.members))

InitZip ==
    /\ zip_content \in Archives
    /\ files_data = None
    /\ chains = [d \in Domains |-> None]
    /\ initialization_lock = <<>>
    /\ pc = <<>>
    /\ builds = [d \in Domains |-> 0]
    /\ returned = <<>>
    /\ EngineIdle

ProcessZipFile ==
    /\ files_data = None
    /\ files_data' = Some(process_zip_file(zip_content))
    /\ UNCHANGED zip_content
    /\ UNCHANGED <<engineVars, chainVars>>

NextZip == ProcessZipFile

SpecZip == InitZip /\ [][NextZip]_vars

-----------------------------------------------------------------------------
(* Properties *)

Authors(messages) == {messages[i].name : i \in 1..Len(messages)}

MessagesBy(messages, name) == SelectSeq(messages, LAMBDA m : m.name = name)

Compiled(s, reason) ==
    Some(compile_final_response_from_messages(s.messages, s.workflow_type, reason))

NonBlank(opt) == opt # None /\ Strip(opt[1]) # <<>>

\* a step of the supervisor node that returned a decision
SupervisorStep == node = SUPERVISOR /\ steps' = steps + 1

\* C1: every request, whatever the oracle does, ends at FINISH: the graph
\* run never stops anywhere else, it can always take its next step while it
\* is running, and it takes no more than recursion_limit steps.
C1_ReachesFinishWithinStepCap ==
    /\ steps <= recursion_limit
    /\ status # "running" => state.next = FINISH
    /\ status = "running" => ENABLED Next

\* C2: no specialist identity is the author of more than one message of the
\* log of a request.
C2_NoDuplicateAuthor ==
    \A a \in Specialists : Len(MessagesBy(state.messages, a)) <= 1

C2_Witness ==
    /\ decision.kind = "dict"
    /\ decision.next \in Authors(state.messages)
    /\ status = "finished"
    /\ Len(AgentMessages(state.messages)) >= 2

\* C3: whenever the supervisor has returned FINISH, final_response is a
\* string with some non-whitespace text in it, also when the oracle asked
\* to finish with an empty or whitespace-only text.
C3_NonBlankAtFinish ==
    state.next = FINISH =>
        /\ NonBlank(state.final_response)
        /\ (decision.kind = "dict" /\ decision.next = FINISH
                /\ Strip(decision.final_response) = <<>>)
            => state.final_response = Compiled(state, "LLM requested finish without response")

C3_Witness ==
    /\ state.next = FINISH
    /\ decision = OracleDict(FINISH, <<" ">>)
    /\ AgentMessages(state.messages) # <<>>

\* C4: once final_response is set no step changes it, and a supervisor
\* invocation on such a state returns FINISH.
C4_FinalResponseNeverOverwritten ==
    [][Truthy(state.final_response) =>
            /\ state'.final_response = state.final_response
            /\ SupervisorStep => state'.next = FINISH]_vars

\* C5: with an oracle that raises on every invocation the first step of a
\* request meets the oracle, and once it has raised the request is finished
\* with a non-blank final_response, the compiled one, in which no text of a
\* human or supervisor message occurs.
C5_DegradeWhenOracleRaises ==
    /\ (oracle_calls = 0 /\ status = "running") => (node = SUPERVISOR /\ steps = 0)
    /\ (oracle_calls = 1 /\ decision = OracleRaises) =>
            /\ status = "finished"
            /\ state.next = FINISH
            /\ NonBlank(state.final_response)
            /\ state.final_response = Compiled(state, "Error in supervisor routing")
            /\ \A i \in 1..Len(state.messages) :
                  state.messages[i].name \in {NoName, SUPERVISOR} =>
                      \A j \in 1..Len(state.messages[i].content) :
                          ~Contains(state.final_response[1],
                                    <<state.messages[i].content[j]>>)

C5_Witness ==
    /\ oracle_calls = 1
    /\ decision = OracleRaises
    /\ status = "finished"
    /\ state.workflow_type = "gap_analysis"

\* C6: when the oracle raised, or returned a next outside the valid
\* options, the supervisor returned FINISH with the compiled response; the
\* graph run did not fail and no specialist was dispatched.
C6_OracleFailureContained ==
    (decision.kind = "raise" \/ (decision.kind = "dict" /\ decision.next \notin valid_options))
        => /\ status = "finished"
           /\ node = END
           /\ state.next = FINISH
           /\ state.final_response = Compiled(state, "Error in supervisor routing")

C6_Witness ==
    /\ decision = OracleDict("unknown_agent", <<>>)
    /\ status = "finished"
    /\ Len(AgentMessages(state.messages)) >= 2

\* C7: a supervisor step in which the oracle names a specialist that has
\* already authored a message returns FINISH with the compiled response,
\* not the oracle's text, and the named specialist does not run.
C7_DuplicateRoutingPrevented ==
    [][(/\ SupervisorStep
        /\ decision'.kind = "dict"
        /\ decision'.next \in Specialists
        /\ decision'.next \in Authors(state.messages))
        => /\ state'.next = FINISH
           /\ node' = END
           /\ state'.messages = state.messages
           /\ state'.final_response
                = Compiled(state, "Attempted duplicate routing prevented")]_vars

C7_Witness ==
    /\ status = "finished"
    /\ decision.kind = "dict"
    /\ decision.next \in Specialists
    /\ decision.next \in Authors(state.messages)
    /\ decision.final_response = <<"o">>

\* C8: the supervisor invoked on a log of 6 or more agent messages returns
\* FINISH with the compiled response and does not consult the oracle,
\* whatever the workflow type, the agents present and final_response.
C8_HardCap ==
    [][(SupervisorStep /\ agent_message_count(state.messages) >= 6)
        => /\ state'.next = FINISH
           /\ oracle_calls' = oracle_calls
           /\ decision' = NotConsulted
           /\ state'.final_response
                = Compiled(state, "Maximum agent interactions reached")]_vars

C8_Witness ==
    /\ steps = 1
    /\ agent_message_count(state.messages) = 6
    /\ state.workflow_type = "gap_analysis"
    /\ "document_processor" \notin Authors(state.messages)
    /\ state.next = FINISH

\* C9: in a question_answering request at most one specialist message is
\* ever in the log, and the supervisor invoked once a specialist has
\* authored a message returns FINISH without consulting the oracle, with a
\* response that contains the body of that message.
C9_QuestionAnsweringOneTurn ==
    /\ [](state.workflow_type = "question_answering"
            => Len(AgentMessages(state.messages)) <= 1)
    /\ [][(/\ SupervisorStep
           /\ state.workflow_type = "question_answering"
           /\ AgentMessages(state.messages) # <<>>)
           => /\ state'.next = FINISH
              /\ oracle_calls' = oracle_calls
              /\ Contains(state'.final_response[1],
                          CleanContent(AgentMessages(state.messages)[1].content))]_vars

C9_Witness ==
    /\ state.workflow_type = "question_answering"
    /\ status = "finished"
    /\ Len(AgentMessages(state.messages)) = 1
    /\ HasMarker(AgentMessages(state.messages)[1].content)

AllRequiredPresent(messages) ==
    {"document_processor", "cybersecurity_agent", "regulatory_agent",
     "auditor_agent", "report_generator"} \subseteq Authors(messages)

\* C10: in a gap_analysis request the supervisor invoked on a log in which
\* all five required identities are authors returns FINISH without
\* consulting the oracle; invoked on a log with one of them missing, fewer
\* than 6 agent messages and no final_response, it consults the oracle.
C10_GapAnalysisCompletion ==
    [][(SupervisorStep /\ state.workflow_type = "gap_analysis")
        => /\ AllRequiredPresent(state.messages)
                => (state'.next = FINISH /\ oracle_calls' = oracle_calls)
           /\ (/\ ~AllRequiredPresent(state.messages)
               /\ agent_message_count(state.messages) < 6
               /\ ~Truthy(state.final_response))
                => (oracle_calls' = oracle_calls + 1 /\ decision' # NotConsulted)]_vars

C10_Witness ==
    /\ steps = 1
    /\ state.workflow_type = "gap_analysis"
    /\ AllRequiredPresent(state.messages)
    /\ agent_message_count(state.messages) = 5
    /\ state.next = FINISH
    /\ oracle_calls = 0

\* the reason the four rules give, in their order of priority; "" when none
\* of them matches
ExpectedReason(s) ==
    LET authored == {i \in 1..Len(s.messages) :
                        s.messages[i].name \notin {NoName, SUPERVISOR}}
    IN  IF Cardinality(authored) >= 6
        THEN "Maximum agent interactions reached"
        ELSE IF s.final_response # None /\ s.final_response[1] # <<>>
        THEN "Final response already provided"
        ELSE IF s.workflow_type = "question_answering" /\ authored # {}
        THEN "Question answering workflow complete"
        ELSE IF s.workflow_type = "gap_analysis" /\ AllRequiredPresent(s.messages)
        THEN "Gap analysis workflow complete"
        ELSE ""

\* C11: the supervisor tests (1) the agent-message cap, (2) final_response
\* already set, (3) question-answering completion, (4) gap-analysis
\* completion in that order; the first that matches alone gives the
\* termination reason handed to the compiler, and the oracle is consulted
\* exactly when none of the four matches.
C11_RulePriority ==
    [][SupervisorStep
        => /\ reason_used' = ExpectedReason(state)
           /\ ExpectedReason(state) # ""
                => /\ state'.next = FINISH
                   /\ state'.final_response = Compiled(state, ExpectedReason(state))
                   /\ oracle_calls' = oracle_calls
                   /\ decision' = NotConsulted
           /\ ExpectedReason(state) = ""
                => (oracle_calls' = oracle_calls + 1 /\ decision' # NotConsulted)]_vars

\* the cap wins over a final_response already set and over the
\* question-answering rule
C11_Witness ==
    /\ steps = 1
    /\ state.workflow_type = "question_answering"
    /\ agent_message_count(state.messages) >= 6
    /\ reason_used = "Maximum agent interactions reached"
    /\ state.final_response = Compiled(state, "Maximum agent interactions reached")
    /\ oracle_calls = 0

\* C12: once the supervisor has decided FINISH the run has ended: the graph
\* is at END, and no node runs and no message is appended afterwards.
C12_FinishAbsorbing ==
    /\ [](state.next = FINISH => (node = END /\ status = "finished"))
    /\ [][state.next = FINISH
            => (node' = node /\ steps' = steps /\ state'.messages = state.messages)]_vars

C12_Witness ==
    /\ state.next = FINISH
    /\ node = END
    /\ steps >= 3
    /\ Len(state.messages) >= 2

\* C13: the first node run is the supervisor; a step of the supervisor
\* leads to END or to exactly the specialist it named; a step of a
\* specialist is a step of the specialist that was named, leaves exactly one
\* message of its own and leads back to the supervisor; every step runs one
\* node.
C13_StrictAlternation ==
    /\ [](steps = 0 => node = SUPERVISOR)
    /\ [][steps' # steps
            => /\ steps' = steps + 1
               /\ \/ /\ node = SUPERVISOR
                     /\ state'.messages = state.messages
                     /\ \/ state'.next = FINISH /\ node' = END
                        \/ state'.next \in Specialists /\ node' = state'.next
                  \/ /\ node \in Specialists
                     /\ node = state.next
                     /\ node' = SUPERVISOR
                     /\ Len(state'.messages) = Len(state.messages) + 1
                     /\ state'.messages[Len(state'.messages)].name = node]_vars

C13_Witness ==
    /\ node = SUPERVISOR
    /\ steps = 4
    /\ Cardinality(Authors(state.messages) \cap Specialists) = 2

\* C14: every decision of the supervisor names FINISH or a member of the
\* team_members of the state; a question_answering request is never routed
\* to document_processor, auditor_agent or report_generator.
C14_NextWithinTeam ==
    steps >= 1 => state.next \in {FINISH} \cup Range(state.team_members)

\* C15: a request starts with the team of its workflow type (two members for
\* question_answering, all five specialists for gap_analysis), a log holding
\* only the seed human message, and final_response unset.
C15_InitialState ==
    steps = 0
        => /\ state.workflow_type = "question_answering"
                => Range(state.team_members) = {"cybersecurity_agent", "regulatory_agent"}
           /\ state.workflow_type = "gap_analysis"
                => Range(state.team_members) =
                        {"document_processor", "cybersecurity_agent", "regulatory_agent",
                         "auditor_agent", "report_generator"}
           /\ Len(state.messages) = 1
           /\ state.messages[1].name = NoName
           /\ state.final_response = None

\* C16: final_response is non-empty in the state only when the supervisor
\* has decided FINISH; a dispatch to a specialist never sets it.
C16_ResponseOnlyAtFinish ==
    (state.final_response # None /\ state.final_response[1] # <<>>)
        => state.next = FINISH

\* C17: no step changes workflow_type, team_members or uploaded_files, and
\* a step of a specialist node leaves next and final_response unchanged.
C17_Frame ==
    [][/\ state'.workflow_type = state.workflow_type
       /\ state'.team_members = state.team_members
       /\ state'.uploaded_files = state.uploaded_files
       /\ node \in Specialists
            => /\ state'.next = state.next
               /\ state'.final_response = state.final_response]_vars

\* a specialist ran while final_response was set and next named it
C17_Witness ==
    /\ node = SUPERVISOR
    /\ steps >= 2
    /\ state.next \in Specialists
    /\ state.final_response = Some(<<"o">>)
    /\ state.messages[Len(state.messages)].name = state.next

\* C18: the log only grows at its end; a step of a specialist appends one
\* message under the specialist's own name; the message of
\* cybersecurity_agent or regulatory_agent is the agent's output, followed
\* by a sources trailer exactly when a tool output carried non-empty
\* sources; a step of the supervisor appends nothing.
C18_LogAppendOnly ==
    [][/\ Len(state'.messages) >= Len(state.messages)
       /\ SubSeq(state'.messages, 1, Len(state.messages)) = state.messages
       /\ node = SUPERVISOR => state'.messages = state.messages
       /\ (node \in Specialists /\ steps' = steps + 1)
            => /\ Len(state'.messages) = Len(state.messages) + 1
               /\ state'.messages[Len(state'.messages)].name = node
       /\ (node \in {"cybersecurity_agent", "regulatory_agent"} /\ steps' = steps + 1)
            => \E r \in AgentResults :
                  LET content == state'.messages[Len(state'.messages)].content
                      steps_of_r == r.intermediate_steps
                      sourced == \E i \in 1..Len(steps_of_r) : steps_of_r[i].sources # <<>>
                  IN  /\ SubSeq(content, 1, Len(r.output)) = r.output
                      /\ sourced => /\ HasMarker(content)
                                    /\ content = r.output
                                            \o SourcesInfo(steps_of_r, Len(steps_of_r))
                      /\ ~sourced => content = r.output]_vars

\* one agent's tool output carried sources, the other's carried an empty list
C18_Witness ==
    /\ node = SUPERVISOR
    /\ state.regulatory_analysis = Some(ToolOutput("dict", <<>>))
    /\ \E i \in 1..Len(state.messages) :
          /\ state.messages[i].name = "regulatory_agent"
          /\ state.messages[i].content = <<"w">>
    /\ \E i \in 1..Len(state.messages) :
          /\ state.messages[i].name = "cybersecurity_agent"
          /\ HasMarker(state.messages[i].content)

\* C19: cybersecurity_analysis, regulatory_analysis, gap_analysis and
\* document_metadata change only in a step of the owning node
\* (cybersecurity_agent, regulatory_agent, auditor_agent, document_processor)
\* and only while still unset.
C19_SlotsWrittenOnceByOwner ==
    [][/\ state'.cybersecurity_analysis # state.cybersecurity_analysis
            => (node = "cybersecurity_agent" /\ state.cybersecurity_analysis = None)
       /\ state'.regulatory_analysis # state.regulatory_analysis
            => (node = "regulatory_agent" /\ state.regulatory_analysis = None)
       /\ state'.gap_analysis # state.gap_analysis
            => (node = "auditor_agent" /\ state.gap_analysis = None)
       /\ state'.document_metadata # state.document_metadata
            => (node = "document_processor" /\ state.document_metadata = None)]_vars

C19_Witness ==
    /\ state.cybersecurity_analysis # None
    /\ state.regulatory_analysis # None
    /\ state.gap_analysis # None
    /\ state.document_metadata # None

\* C20: the compiler returns a non-empty text for the log of the state,
\* either workflow type and any termination reason; for a log without a
\* message of a specialist it returns the generic text that names the reason.
C20_CompileNeverEmpty ==
    \A workflow_type \in {"question_answering", "gap_analysis"},
       r \in {"Maximum agent interactions reached", "Error in supervisor routing"} :
        LET text == compile_final_response_from_messages(state.messages, workflow_type, r)
        IN  /\ text # <<>>
            /\ Authors(state.messages) \subseteq {NoName, SUPERVISOR}
                => /\ Len(text) = 3
                   /\ text[1] = "Analysis completed ("
                   /\ text[2] = r

\* the supervisor finished on a log of human and supervisor messages
C20_Witness ==
    /\ steps = 1
    /\ state.next = FINISH
    /\ SUPERVISOR \in Authors(state.messages)
    /\ Authors(state.messages) \subseteq {NoName, SUPERVISOR}
    /\ Len(state.final_response[1]) = 3
    /\ state.final_response[1][1] = "Analysis completed ("

\* C21: for question_answering the compiled text is the fixed framing around
\* the body of the most recent specialist message and holds no other
\* specialist message; for gap_analysis it is the opening, then for every
\* specialist message in the order of the log a heading for its author and
\* its body, then the closing summary.
C21_CompileEmbeds ==
    LET am == SelectSeq(state.messages, LAMBDA m : m.name \notin {NoName, SUPERVISOR})
        n == Len(am)
        body(m) == IF HasMarker(m.content) THEN Strip(BeforeMarker(m.content))
                   ELSE m.content
        qa == compile_final_response_from_messages(state.messages,
                                                   "question_answering", "r")
        gap == compile_final_response_from_messages(state.messages, "gap_analysis", "r")
        start[i \in 1..(n + 1)] ==
            IF i = 1 THEN 2 ELSE start[i - 1] + 4 + Len(body(am[i - 1]))
    IN  n > 0 =>
          /\ qa = <<QA_HEAD>> \o body(am[n])
                    \o <<QA_CONTEXT, NameSpaced(am[n].name), QA_TAIL>>
          /\ \A i \in 1..n : body(am[i]) # body(am[n]) => ~Contains(qa, body(am[i]))
          /\ gap[1] = GAP_HEAD
          /\ \A i \in 1..n :
                SubSeq(gap, start[i], start[i + 1] - 1) =
                    <<"**", NameTitle(am[i].name), " Findings:**\n">>
                        \o body(am[i]) \o <<"\n\n">>
          /\ Len(gap) = start[n + 1]
          /\ gap[Len(gap)] = GAP_TAIL

\* the supervisor compiled the answer of a question_answering request whose
\* log holds messages of three specialists
C21_Witness ==
    /\ steps = 1
    /\ state.workflow_type = "question_answering"
    /\ Cardinality(Authors(state.messages) \cap Specialists) = 3
    /\ reason_used = "Question answering workflow complete"
    /\ state.final_response[1][1] = QA_HEAD


UnitsAt(unit) == {i \in 1..Len(yielded) : yielded[i].unit = unit}

\* C22: in the output stream of a request that has ended every routing
\* notice and status line precedes the final answer, the answer precedes the
\* citation list, the completion notice is the last string, the status line
\* of a specialist follows a routing notice naming it, and the final answer
\* is there exactly once.
C22_StreamOrdered ==
    status # "running"
        => /\ Cardinality(UnitsAt("answer_header")) = 1
           /\ \A i \in UnitsAt("routing") \cup UnitsAt("status"),
                 j \in UnitsAt("answer_header") \cup UnitsAt("answer") : i < j
           /\ \A i \in UnitsAt("answer_header") \cup UnitsAt("answer")
                        \cup UnitsAt("answer_end"),
                 j \in UnitsAt("sources_header") \cup UnitsAt("citation") : i < j
           /\ UnitsAt("complete") = {Len(yielded)}
           /\ \A j \in UnitsAt("status") :
                 \E i \in UnitsAt("routing") :
                    i < j /\ yielded[i].text = yielded[j].text

\* the places of the log where a specialist message shows "<document> - Page
\* <page>": message index and token index
PageMarks ==
    UNION {{<<m, i>> : i \in {j \in 2..(Len(state.messages[m].content) - 1) :
                                state.messages[m].content[j] = " - Page "}} :
            m \in {n \in 1..Len(state.messages) :
                        state.messages[n].name \in Specialists}}

PairAt(o) ==
    <<state.messages[o[1]].content[o[2] - 1], state.messages[o[1]].content[o[2] + 1]>>

Earlier(o1, o2) == o1[1] < o2[1] \/ (o1[1] = o2[1] /\ o1[2] < o2[2])

FirstMark(pair) ==
    CHOOSE o \in PageMarks :
        /\ PairAt(o) = pair
        /\ \A o2 \in PageMarks : PairAt(o2) = pair => ~Earlier(o2, o)

C26_SpecialistFailureContained ==
    [][(node \in Specialists)
        => /\ status' = "running"
           /\ node' = SUPERVISOR
           /\ Len(state'.messages) = Len(state.messages) + 1
           /\ state'.messages[Len(state'.messages)].name = node]_vars

\* C28: a question_answering request is at FINISH only with a message of a
\* specialist in its log.
C28_NoDirectAnswer ==
    (state.workflow_type = "question_answering" /\ state.next = FINISH)
        => \E i \in 1..Len(state.messages) : state.messages[i].name \in Specialists

GapOrder ==
    <<"document_processor", "cybersecurity_agent", "regulatory_agent",
      "auditor_agent", "report_generator">>

\* C29: in a gap_analysis request the authors of the specialist messages,
\* in log order, are an initial part of document_processor,
\* cybersecurity_agent, regulatory_agent, auditor_agent, report_generator,
\* and all five once the request is at FINISH.
C29_GapAnalysisOrder ==
    state.workflow_type = "gap_analysis"
        => LET am == SelectSeq(state.messages, LAMBDA m : m.name \in Specialists)
           IN  /\ Len(am) <= Len(GapOrder)
               /\ \A i \in 1..Len(am) : am[i].name = GapOrder[i]
               /\ state.next = FINISH => Len(am) = Len(GapOrder)

\* C30: in a run of the engine started from an initial state the log never
\* holds more than 5 specialist messages and the rule for 6 or more agent
\* messages never fires; the run takes at most 11 steps (a supervisor step
\* before and after each of at most 5 distinct specialists), so the
\* recursion limit is never hit and its notice never emitted.
C30_CapsNeverReached ==
    LET authored == {i \in 1..Len(state.messages) :
                        state.messages[i].name \notin {NoName, SUPERVISOR}}
    IN  /\ Cardinality(authored) <= 5
        /\ Cardinality(authored) = Cardinality(Authors(state.messages) \cap Specialists)
        /\ steps <= 2 * Cardinality(authored) + 1
        /\ steps <= 11
        /\ steps < recursion_limit
        /\ reason_used # "Maximum agent interactions reached"
        /\ status # "recursion_error"
        /\ UnitsAt("limit") = {}

\* the longest run: five specialists, six supervisor invocations
C30_Witness ==
    /\ steps = 11
    /\ status = "finished"
    /\ agent_message_count(state.messages) = 5
    /\ oracle_calls = 5
    /\ reason_used = "Gap analysis workflow complete"

C27_ArchiveExpansion ==
    files_data # None
        => LET entries == files_data[1]
               files == SelectSeq(zip_content.members, LAMBDA m : ~m.is_dir)
           IN  IF zip_content.kind # "valid"
               THEN Len(entries) = 1 /\ entries[1].type = "error"
               ELSE /\ Len(entries) = Len(files)
                    /\ \A i \in 1..Len(files) :
                          /\ entries[i].name = files[i].filename
                          /\ (entries[i].type = "error")
                                = (~files[i].read_ok \/ ~files[i].parse_ok)

====
